---- MODULE Spec2Model ----
(***************************************************************************)
(* Email subscription worker (src/worker/index.js): a stateless HTTP       *)
(* handler in front of a key-value namespace SUBSCRIBERS.  Every await on  *)
(* the namespace (list, get, put, delete) is one step of a request, so     *)
(* that requests can be run one at a time (Spec) or interleaved (SpecConc).*)
(***************************************************************************)
EXTENDS Integers, Sequences, FiniteSets, TLC

\* ------------------------------------------------------------------ bounds
MaxTokens == 3      \* number of tokens crypto.randomUUID() hands out in a run
MaxTime   == 2      \* number of distinct clock readings in a run

\* ------------------------------------------------------- strings and values
\* A JavaScript string is a sequence of one-character strings.
Whitespace == {" "}

\* UTF-16 code units of the characters used, for the lexicographic key order
CharCode(c) ==
  CASE c = " " -> 32 [] c = "." -> 46 [] c = "@" -> 64
    [] c = "A" -> 65 [] c = "B" -> 66 [] c = "C" -> 67
    [] c = "a" -> 97 [] c = "b" -> 98 [] c = "c" -> 99
    [] OTHER -> 0

LowerChar(c) ==
  CASE c = "A" -> "a" [] c = "B" -> "b" [] c = "C" -> "c" [] OTHER -> c

\* String.prototype.toLowerCase
toLowerCase(s) == [i \in 1..Len(s) |-> LowerChar(s[i])]

RECURSIVE trimStart(_)
trimStart(s) ==
  IF s # <<>> /\ Head(s) \in Whitespace THEN trimStart(Tail(s)) ELSE s

RECURSIVE trimEnd(_)
trimEnd(s) ==
  IF s # <<>> /\ s[Len(s)] \in Whitespace
  THEN trimEnd(SubSeq(s, 1, Len(s) - 1)) ELSE s

\* String.prototype.trim
trim(s) == trimEnd(trimStart(s))

\* the character class [^\s@]
NotSpaceAt(c) == c \notin Whitespace /\ c # "@"

\* s[i..j] is a non-empty run of [^\s@]
RunOfNotSpaceAt(s, i, j) == i <= j /\ \A n \in i..j : NotSpaceAt(s[n])

\* /^[^\s@]+@[^\s@]+\.[^\s@]+$/.test(email)
isValidEmailNoDot(email) ==
  \E i \in 1..Len(email) :
    /\ email[i] = "@"
    /\ RunOfNotSpaceAt(email, 1, i - 1)
    /\ RunOfNotSpaceAt(email, i + 1, Len(email))

isValidEmail(email) ==
  \E i, j \in 1..Len(email) :
    /\ email[i] = "@"
    /\ email[j] = "."
    /\ RunOfNotSpaceAt(email, 1, i - 1)
    /\ RunOfNotSpaceAt(email, i + 1, j - 1)
    /\ RunOfNotSpaceAt(email, j + 1, Len(email))

\* email.toLowerCase().trim()
normalize(email) == trim(toLowerCase(email))

\* crypto.randomUUID(): the n-th identifier handed out, all distinct
UUIDs == <<"t1", "t2", "t3", "t4", "t5", "t6", "t7", "t8">>

generateToken(n) == UUIDs[n]

\* new Date().toISOString() at clock reading n
ISOStrings == <<"T1", "T2", "T3", "T4", "T5", "T6", "T7", "T8">>

toISOString(n) == ISOStrings[n]

\* JSON.stringify of { token, subscribed_at }: the text as a token sequence
JSON_stringify(data) == <<"{", data.token, data.subscribed_at, "}">>

\* JSON.parse succeeds on v
Parseable(v) == Len(v) = 4 /\ v[1] = "{" /\ v[4] = "}"

\* JSON.parse(v) for a parseable v
JSON_parse(v) == [token |-> v[2], subscribed_at |-> v[3]]

\* null, as the result of KV get on an absent key / searchParams.get
Null == "<null>"
Undefined == "<undefined>"
NullValue == <<Null>>

\* JavaScript truthiness of a KV value (null and "" are falsy)
TruthyValueNever(v) == FALSE

TruthyValue(v) == v # NullValue /\ v # <<>>

\* JavaScript truthiness of a query parameter (null and "" are falsy)
TruthyParamNullOnly(t) == t # Null

TruthyParam(t) == t # Null /\ t # ""

\* ------------------------------------------------------------------ inputs
Str_a_b_c      == <<"a", "@", "b", ".", "c">>
Str_A_B_c      == <<"A", "@", "B", ".", "c">>
Str_sp_a_b_c   == <<" ", "a", "@", "b", ".", "c", " ">>
Str_b_b_c      == <<"b", "@", "b", ".", "c">>
Str_ab_c       == <<"a", "b", ".", "c">>
Str_a_bc       == <<"a", "@", "b", "c">>

\* the email strings a client may send (the last one is the empty string)
EmailInputs ==
  {Str_a_b_c, Str_A_B_c, Str_sp_a_b_c, Str_b_b_c, Str_ab_c, Str_a_bc, <<>>}

\* request bodies: not JSON at all, JSON without an email field, JSON with one
BadJsonBody == [json |-> FALSE, hasEmail |-> FALSE, email |-> <<>>]
NoEmailBody == [json |-> TRUE, hasEmail |-> FALSE, email |-> <<>>]
EmailBody(e) == [json |-> TRUE, hasEmail |-> TRUE, email |-> e]
Bodies == {BadJsonBody, NoEmailBody} \cup {EmailBody(e) : e \in EmailInputs}

\* storage keys the worker can produce
Keys == {normalize(e) : e \in {x \in EmailInputs : isValidEmail(x)}}

\* ?token= values: absent, empty, or any identifier of the run
\* tokens of records written to the namespace before the run
OldTokens == {"x1", "x2"}

TokenParams ==
  {Null, ""} \cup {generateToken(n) : n \in 1..MaxTokens} \cup OldTokens

\* ?key= values: absent or a string
KeyParams == {Null, "k1", "k2"}

\* env.API_SECRET: configured, or not configured at all
SecretConfigs == {"k1", Undefined}

Request(m, path, b, t, k) ==
  [method |-> m, path |-> path, body |-> b, token |-> t, key |-> k]

Requests ==
       {Request("POST", "/subscribe", b, Null, Null) : b \in Bodies}
  \cup {Request("GET", "/unsubscribe", NoEmailBody, t, Null) : t \in TokenParams}
  \cup {Request("GET", "/subscribers", NoEmailBody, Null, k) : k \in KeyParams}
  \cup {Request(m, "/subscribe", NoEmailBody, Null, Null) : m \in {"GET", "OPTIONS"}}
  \cup {Request(m, "/unsubscribe", NoEmailBody, "t1", Null) : m \in {"POST", "OPTIONS"}}
  \cup {Request("GET", "/other", NoEmailBody, Null, Null)}

\* ------------------------------------------------------------------- state
Procs == {1, 2}     \* request slots: invocations of fetch that may overlap

VARIABLES
  store,              \* env.SUBSCRIBERS: key -> value (both strings)
  API_SECRET,         \* env.API_SECRET
  nextToken,          \* index of the next identifier randomUUID returns
  now,                \* the clock read by new Date()
  req,                \* per slot: the request, its locals, position and response
  subscribedSince,    \* history: key -> value stored under it when the first
                      \* Subscribe answered 200 since the last Unsubscribe call
  unsubscribedSince,  \* history: keys deleted by Unsubscribe since the last
                      \* Subscribe call
  createdWith,        \* history: key -> the { token, subscribed_at } object
                      \* built by the Subscribe call whose put wrote the key
  unsubscribedTokens  \* history: tokens whose Unsubscribe answered 200 since
                      \* the last Subscribe call

vars == <<store, API_SECRET, nextToken, now, req, subscribedSince,
          unsubscribedSince, createdWith, unsubscribedTokens>>

NoValue == <<>>
NoHistory == [k \in Keys |-> NoValue]
NoData == [token |-> "", subscribed_at |-> ""]
EmptyStore == [k \in {} |-> NoValue]

IdleReq ==
  [pc |-> "idle", method |-> "", path |-> "", body |-> NoEmailBody,
   token |-> Null, key |-> Null,
   normalizedEmail |-> <<>>, existing |-> NullValue, data |-> NoData,
   list |-> <<>>, idx |-> 0,
   subscribers |-> <<>>,
   status |-> 0, text |-> "", cors |-> FALSE, unhandled |-> FALSE,
   pre |-> EmptyStore, ops |-> 0, failed |-> FALSE,
   sub0 |-> NoHistory, unsub0 |-> {}, repeated |-> FALSE]

\* ------------------------------------------------------ the KV namespace
\* SUBSCRIBERS.get(key): the value, or null
KVget(s, k) == IF k \in DOMAIN s THEN s[k] ELSE NullValue

KVputNothing(s, k, v) == s

KVput(s, k, v) == [x \in DOMAIN s \cup {k} |-> IF x = k THEN v ELSE s[x]]

KVdeleteNothing(s, k) == s

KVdelete(s, k) == [x \in DOMAIN s \ {k} |-> s[x]]

\* lexicographic order of keys, as SUBSCRIBERS.list() returns them
RECURSIVE KeyLess(_, _)
KeyLess(a, b) ==
  IF a = <<>> THEN b # <<>>
  ELSE IF b = <<>> THEN FALSE
  ELSE IF CharCode(Head(a)) # CharCode(Head(b))
       THEN CharCode(Head(a)) < CharCode(Head(b))
       ELSE KeyLess(Tail(a), Tail(b))

RECURSIVE SortedKeys(_)
SortedKeys(S) ==
  IF S = {} THEN <<>>
  ELSE LET m == CHOOSE x \in S : \A y \in S \ {x} : KeyLess(x, y)
       IN <<m>> \o SortedKeys(S \ {m})

\* SUBSCRIBERS.list().keys
KVlist(s) == SortedKeys(DOMAIN s)

\* --------------------------------------------------------------- responses
\* new Response(body, { status, headers }) returned from the handler
Respond(rq, status, text, cors) ==
  [rq EXCEPT !.pc = "done", !.status = status, !.text = text, !.cors = cors]

\* an exception that leaves fetch: the worker produces no response of its own
Throw(rq) == [rq EXCEPT !.pc = "done", !.unhandled = TRUE]

\* ---------------------------------------------------------------- handlers
\* handleSubscribe up to its first await on the namespace (lines 25-35);
\* request.json() rejecting is caught by the handler's try/catch (59-64)
handleSubscribe(rq) ==
  IF ~rq.body.json
  THEN Respond(rq, 500, "Server error", TRUE)
  ELSE IF \/ ~rq.body.hasEmail
          \/ rq.body.email = <<>>
          \/ ~isValidEmail(rq.body.email)
       THEN Respond(rq, 400, "Invalid email", TRUE)
       ELSE [rq EXCEPT !.normalizedEmail = normalize(rq.body.email),
                       !.pc = "s_get"]

\* handleUnsubscribe up to its first await (lines 68-79)
handleUnsubscribe(rq) ==
  IF ~TruthyParam(rq.token)
  THEN Respond(rq, 400, "Invalid unsubscribe link.", FALSE)
  ELSE [rq EXCEPT !.pc = "u_list"]

\* key !== env.API_SECRET
LooseNotEqual(a, b) == a # b /\ {a, b} # {Null, Undefined}

StrictNotEqual(a, b) == a # b

\* handleListSubscribers up to its first await (lines 108-118)
handleListSubscribers(rq, secret) ==
  IF StrictNotEqual(rq.key, secret)
  THEN Respond(rq, 401, "Unauthorized", FALSE)
  ELSE [rq EXCEPT !.pc = "l_list"]

\* the router of fetch (lines 165-187)
RouteByPath(rq, secret) ==
  IF rq.method = "OPTIONS"
  THEN Respond(rq, 200, "", TRUE)
  ELSE IF rq.path = "/subscribe"
  THEN handleSubscribe(rq)
  ELSE IF rq.path = "/unsubscribe"
  THEN handleUnsubscribe(rq)
  ELSE IF rq.path = "/subscribers"
  THEN handleListSubscribers(rq, secret)
  ELSE Respond(rq, 404, "Not Found", FALSE)

Route(rq, secret) ==
  IF rq.method = "OPTIONS"
  THEN Respond(rq, 200, "", TRUE)
  ELSE IF rq.path = "/subscribe" /\ rq.method = "POST"
  THEN handleSubscribe(rq)
  ELSE IF rq.path = "/unsubscribe" /\ rq.method = "GET"
  THEN handleUnsubscribe(rq)
  ELSE IF rq.path = "/subscribers" /\ rq.method = "GET"
  THEN handleListSubscribers(rq, secret)
  ELSE Respond(rq, 404, "Not Found", FALSE)

IsSubscribe(rq) == rq.path = "/subscribe" /\ rq.method = "POST"
IsUnsubscribe(rq) == rq.path = "/unsubscribe" /\ rq.method = "GET"
IsList(rq) == rq.path = "/subscribers" /\ rq.method = "GET"

\* a request arrives in slot p and runs until its first await or its response
fetch(p, r) ==
  /\ req[p].pc \in {"idle", "done"}
  /\ IsSubscribe(r) =>
       nextToken + Cardinality({q \in Procs : req[q].pc = "s_get"}) <= MaxTokens
  /\ LET rq == [IdleReq EXCEPT !.method = r.method, !.path = r.path,
                               !.body = r.body, !.token = r.token,
                               !.key = r.key, !.pre = store,
                               !.sub0 = subscribedSince,
                               !.unsub0 = unsubscribedSince,
                               !.repeated = r.token \in unsubscribedTokens]
     IN req' = [req EXCEPT ![p] = Route(rq, API_SECRET)]
  /\ subscribedSince' = IF IsUnsubscribe(r) THEN NoHistory ELSE subscribedSince
  /\ unsubscribedSince' = IF IsSubscribe(r) THEN {} ELSE unsubscribedSince
  /\ unsubscribedTokens' = IF IsSubscribe(r) THEN {} ELSE unsubscribedTokens
  /\ UNCHANGED <<store, API_SECRET, nextToken, now, createdWith>>

\* history: the first Subscribe answered 200 for key k found value v stored
NoteSubscribed(k, v) ==
  IF k \in Keys /\ subscribedSince[k] = NoValue
  THEN [subscribedSince EXCEPT ![k] = v]
  ELSE subscribedSince

\* the key handleSubscribe looks up and writes (lines 38, 53)
LookupKeyRaw(rq) == rq.body.email

LookupKey(rq) == rq.normalizedEmail

\* await env.SUBSCRIBERS.get(normalizedEmail) and what follows it (38-51)
Subscribe_get(p) ==
  /\ req[p].pc = "s_get"
  /\ LET existing == KVget(store, LookupKey(req[p]))
         rq == [req[p] EXCEPT !.ops = @ + 1, !.existing = existing]
     IN IF TruthyValue(existing)
        THEN /\ req' = [req EXCEPT ![p] =
                          Respond(rq, 200, "Already subscribed", TRUE)]
             /\ subscribedSince' = NoteSubscribed(rq.normalizedEmail, existing)
             /\ UNCHANGED nextToken
        ELSE /\ req' = [req EXCEPT ![p] =
                          [rq EXCEPT !.pc = "s_put",
                                     !.data =
                                        [token |-> generateToken(nextToken),
                                         subscribed_at |-> toISOString(now)]]]
             /\ nextToken' = nextToken + 1
             /\ UNCHANGED subscribedSince
  /\ UNCHANGED <<store, API_SECRET, now, unsubscribedSince, createdWith,
                 unsubscribedTokens>>

\* await env.SUBSCRIBERS.put(normalizedEmail, JSON.stringify(data)) (53-58)
Subscribe_put(p) ==
  /\ req[p].pc = "s_put"
  /\ LET rq == [req[p] EXCEPT !.ops = @ + 1]
     IN /\ store' = KVput(store, LookupKey(rq), JSON_stringify(rq.data))
        /\ req' = [req EXCEPT ![p] =
                     Respond(rq, 200, "Subscribed successfully", TRUE)]
        /\ subscribedSince' =
             NoteSubscribed(rq.normalizedEmail, JSON_stringify(rq.data))
        /\ createdWith' = [x \in DOMAIN createdWith \cup {rq.normalizedEmail}
                             |-> IF x = rq.normalizedEmail THEN rq.data
                                 ELSE createdWith[x]]
  /\ UNCHANGED <<API_SECRET, nextToken, now, unsubscribedSince,
                 unsubscribedTokens>>

\* parsed.token === token (line 86)
TokenMatchesAny(parsed, token) == TRUE

TokenMatches(parsed, token) == parsed.token = token

\* the for loop of handleUnsubscribe moves to the next key, or ends (82, 94-104)
UnsubscribeAdvanceBreak(rq) ==
  Respond(rq, 404, "Subscription not found or already unsubscribed.", FALSE)

UnsubscribeAdvance(rq) ==
  IF rq.idx < Len(rq.list)
  THEN [rq EXCEPT !.idx = @ + 1]
  ELSE Respond(rq, 404, "Subscription not found or already unsubscribed.",
               FALSE)

\* await env.SUBSCRIBERS.list() in handleUnsubscribe (79-82)
Unsubscribe_list(p) ==
  /\ req[p].pc = "u_list"
  /\ LET rq == [req[p] EXCEPT !.ops = @ + 1, !.list = KVlist(store),
                              !.idx = 0, !.pc = "u_get"]
     IN req' = [req EXCEPT ![p] = UnsubscribeAdvance(rq)]
  /\ UNCHANGED <<store, API_SECRET, nextToken, now, subscribedSince,
                 unsubscribedSince, createdWith,
                 unsubscribedTokens>>

\* await env.SUBSCRIBERS.get(key.name) in handleUnsubscribe (83-86);
\* JSON.parse throwing is not caught anywhere
Unsubscribe_get(p) ==
  /\ req[p].pc = "u_get"
  /\ LET rq == [req[p] EXCEPT !.ops = @ + 1]
         data == KVget(store, rq.list[rq.idx])
     IN req' = [req EXCEPT ![p] =
          IF TruthyValue(data)
          THEN IF ~Parseable(data)
               THEN Throw(rq)
               ELSE IF TokenMatches(JSON_parse(data), rq.token)
                    THEN [rq EXCEPT !.pc = "u_delete"]
                    ELSE UnsubscribeAdvance(rq)
          ELSE UnsubscribeAdvance(rq)]
  /\ UNCHANGED <<store, API_SECRET, nextToken, now, subscribedSince,
                 unsubscribedSince, createdWith,
                 unsubscribedTokens>>

\* await env.SUBSCRIBERS.delete(key.name), found = true, break (87-98)
Unsubscribe_deleteNoBreak(p) ==
  /\ req[p].pc = "u_delete"
  /\ LET rq == [req[p] EXCEPT !.ops = @ + 1]
     IN /\ store' = KVdelete(store, rq.list[rq.idx])
        /\ req' = [req EXCEPT ![p] =
             IF rq.idx < Len(rq.list)
             THEN [rq EXCEPT !.idx = @ + 1, !.pc = "u_get"]
             ELSE Respond(rq, 200,
                          "You have been unsubscribed from job alerts.", FALSE)]
        /\ unsubscribedSince' = unsubscribedSince \cup {rq.list[rq.idx]}
        /\ unsubscribedTokens' = unsubscribedTokens \cup {rq.token}
        /\ createdWith' = [x \in DOMAIN createdWith \ {rq.list[rq.idx]}
                             |-> createdWith[x]]
  /\ UNCHANGED <<API_SECRET, nextToken, now, subscribedSince>>

Unsubscribe_delete(p) ==
  /\ req[p].pc = "u_delete"
  /\ LET rq == [req[p] EXCEPT !.ops = @ + 1]
     IN /\ store' = KVdelete(store, rq.list[rq.idx])
        /\ req' = [req EXCEPT ![p] =
             Respond(rq, 200, "You have been unsubscribed from job alerts.",
                     FALSE)]
        /\ unsubscribedSince' = unsubscribedSince \cup {rq.list[rq.idx]}
        /\ unsubscribedTokens' = unsubscribedTokens \cup {rq.token}
        /\ createdWith' = [x \in DOMAIN createdWith \ {rq.list[rq.idx]}
                             |-> createdWith[x]]
  /\ UNCHANGED <<API_SECRET, nextToken, now, subscribedSince>>

\* the for loop of handleListSubscribers moves to the next key, or ends
ListAdvanceBreak(rq) == Respond(rq, 200, "subscribers", FALSE)

ListAdvance(rq) ==
  IF rq.idx < Len(rq.list)
  THEN [rq EXCEPT !.idx = @ + 1]
  ELSE Respond(rq, 200, "subscribers", FALSE)

\* await env.SUBSCRIBERS.list() in handleListSubscribers (118-121)
ListSubscribers_list(p) ==
  /\ req[p].pc = "l_list"
  /\ LET rq == [req[p] EXCEPT !.ops = @ + 1, !.list = KVlist(store),
                              !.idx = 0, !.pc = "l_get"]
     IN req' = [req EXCEPT ![p] = ListAdvance(rq)]
  /\ UNCHANGED <<store, API_SECRET, nextToken, now, subscribedSince,
                 unsubscribedSince, createdWith,
                 unsubscribedTokens>>

\* subscribers.push({ email: key.name, token, subscribed_at }) (124-129)
PushSubscriber(rq, data) ==
  [rq EXCEPT !.subscribers =
     Append(@, [email |-> rq.list[rq.idx],
                token |-> JSON_parse(data).token,
                subscribed_at |-> JSON_parse(data).subscribed_at])]

\* await env.SUBSCRIBERS.get(key.name) in handleListSubscribers (122-131)
ListSubscribers_getDeleting(p) ==
  /\ req[p].pc = "l_get"
  /\ LET rq == [req[p] EXCEPT !.ops = @ + 1]
         data == KVget(store, rq.list[rq.idx])
     IN /\ req' = [req EXCEPT ![p] =
             IF TruthyValue(data)
             THEN IF ~Parseable(data)
                  THEN Throw(rq)
                  ELSE ListAdvance(PushSubscriber(rq, data))
             ELSE ListAdvance(rq)]
        /\ store' = KVdelete(store, rq.list[rq.idx])
  /\ UNCHANGED <<API_SECRET, nextToken, now, subscribedSince,
                 unsubscribedSince, createdWith, unsubscribedTokens>>

ListSubscribers_getNoNullCheck(p) ==
  /\ req[p].pc = "l_get"
  /\ LET rq == [req[p] EXCEPT !.ops = @ + 1]
         data == KVget(store, rq.list[rq.idx])
     IN req' = [req EXCEPT ![p] =
          IF ~Parseable(data)
          THEN Throw(rq)
          ELSE ListAdvance(PushSubscriber(rq, data))]
  /\ UNCHANGED <<store, API_SECRET, nextToken, now, subscribedSince,
                 unsubscribedSince, createdWith, unsubscribedTokens>>

ListSubscribers_get(p) ==
  /\ req[p].pc = "l_get"
  /\ LET rq == [req[p] EXCEPT !.ops = @ + 1]
         data == KVget(store, rq.list[rq.idx])
     IN req' = [req EXCEPT ![p] =
          IF TruthyValue(data)
          THEN IF ~Parseable(data)
               THEN Throw(rq)
               ELSE ListAdvance(PushSubscriber(rq, data))
          ELSE ListAdvance(rq)]
  /\ UNCHANGED <<store, API_SECRET, nextToken, now, subscribedSince,
                 unsubscribedSince, createdWith,
                 unsubscribedTokens>>

\* time passes
Tick ==
  /\ now < MaxTime
  /\ now' = now + 1
  /\ UNCHANGED <<store, API_SECRET, nextToken, req, subscribedSince,
                 unsubscribedSince, createdWith,
                 unsubscribedTokens>>

\* ------------------------------------------------------------ specification
Init ==
  /\ store = EmptyStore
  /\ API_SECRET \in SecretConfigs
  /\ nextToken = 1
  /\ now = 1
  /\ req = [p \in Procs |-> IdleReq]
  /\ subscribedSince = NoHistory
  /\ unsubscribedSince = {}
  /\ createdWith = [k \in {} |-> NoData]
  /\ unsubscribedTokens = {}

Step(p) ==
  \/ Subscribe_get(p)
  \/ Subscribe_put(p)
  \/ Unsubscribe_list(p)
  \/ Unsubscribe_get(p)
  \/ Unsubscribe_delete(p)
  \/ ListSubscribers_list(p)
  \/ ListSubscribers_get(p)

\* requests are served one after the other
Next ==
  \/ \E r \in Requests : fetch(1, r)
  \/ Step(1)
  \/ Tick

Spec == Init /\ [][Next]_vars

\* ----------------------------------------------- failing store operations
\* a namespace operation awaited by handleSubscribe rejects: the catch block
\* answers (lines 59-64); a rejected put is taken to have written nothing
Subscribe_storeFails(p) ==
  /\ req[p].pc \in {"s_get", "s_put"}
  /\ req' = [req EXCEPT ![p] =
       Respond([@ EXCEPT !.ops = @ + 1, !.failed = TRUE],
               500, "Server error", TRUE)]
  /\ UNCHANGED <<store, API_SECRET, nextToken, now, subscribedSince,
                 unsubscribedSince, createdWith,
                 unsubscribedTokens>>

\* a namespace operation awaited by handleUnsubscribe rejects: no try/catch
\* encloses lines 79-92, the rejection leaves the handler and fetch
Unsubscribe_storeFails(p) ==
  /\ req[p].pc \in {"u_list", "u_get", "u_delete"}
  /\ req' = [req EXCEPT ![p] =
       Throw([@ EXCEPT !.ops = @ + 1, !.failed = TRUE])]
  /\ UNCHANGED <<store, API_SECRET, nextToken, now, subscribedSince,
                 unsubscribedSince, createdWith,
                 unsubscribedTokens>>

\* a namespace operation awaited by handleListSubscribers rejects: no
\* try/catch encloses lines 118-131
ListSubscribers_storeFails(p) ==
  /\ req[p].pc \in {"l_list", "l_get"}
  /\ req' = [req EXCEPT ![p] =
       Throw([@ EXCEPT !.ops = @ + 1, !.failed = TRUE])]
  /\ UNCHANGED <<store, API_SECRET, nextToken, now, subscribedSince,
                 unsubscribedSince, createdWith,
                 unsubscribedTokens>>

\* requests served one after the other, over a namespace whose operations
\* may fail
NextFault ==
  \/ Next
  \/ Subscribe_storeFails(1)
  \/ Unsubscribe_storeFails(1)
  \/ ListSubscribers_storeFails(1)

SpecFault == Init /\ [][NextFault]_vars

\* ------------------------------------- a namespace that already holds data
\* The namespace is durable and is also written outside the worker (earlier
\* deployments, the dashboard, the command line): values found in it at the
\* start are well-formed records or text that JSON.parse rejects.
MalformedValue == <<"{", "x1">>

OldValues ==
  {JSON_stringify([token |-> t, subscribed_at |-> toISOString(1)]) :
     t \in OldTokens} \cup {MalformedValue}

OldStores == UNION {[D -> OldValues] : D \in SUBSET Keys}

InitOld ==
  /\ store \in OldStores
  /\ API_SECRET \in SecretConfigs
  /\ nextToken = 1
  /\ now = 1
  /\ req = [p \in Procs |-> IdleReq]
  /\ subscribedSince = NoHistory
  /\ unsubscribedSince = {}
  /\ createdWith = [k \in {} |-> NoData]
  /\ unsubscribedTokens = {}

SpecOld == InitOld /\ [][Next]_vars

\* ------------------------------------------------------ overlapping requests
\* the requests whose steps touch the namespace, the only ones whose overlap
\* matters
ConcRequests ==
       {Request("POST", "/subscribe", EmailBody(e), Null, Null) :
          e \in {Str_a_b_c, Str_A_B_c}}
  \cup {Request("GET", "/unsubscribe", NoEmailBody, generateToken(n), Null) :
          n \in 1..MaxTokens}
  \cup {Request("GET", "/subscribers", NoEmailBody, Null, "k1")}

\* two requests at a time, their steps interleaved in every order; the clock
\* stands still, the records written differ by their tokens
NextConc ==
  \/ \E p \in Procs, r \in ConcRequests : fetch(p, r)
  \/ \E p \in Procs : Step(p)

\* the admin secret is configured, so that the listing requests do scan
InitConc == Init /\ API_SECRET = "k1"

SpecConc == InitConc /\ [][NextConc]_vars

\* ================================================================== claims
\* What the specification means by a valid email, stated on its own terms:
\* exactly one "@", no whitespace, a non-empty local part, and a "." in the
\* domain with at least one character on each side of it.
Count(s, c) == Cardinality({i \in 1..Len(s) : s[i] = c})
AtIndex(s) == CHOOSE i \in 1..Len(s) : s[i] = "@"
LocalAtDomainTld(s) ==
  /\ Count(s, "@") = 1
  /\ Count(s, " ") = 0
  /\ AtIndex(s) > 1
  /\ \E j \in (AtIndex(s) + 2)..(Len(s) - 1) : s[j] = "."

\* the subscriber an email string denotes: case folded, outer blanks removed
RECURSIVE StripBlanks(_)
StripBlanks(s) ==
  IF s = <<>> THEN s
  ELSE IF s[1] = " " THEN StripBlanks(SubSeq(s, 2, Len(s)))
  ELSE IF s[Len(s)] = " " THEN StripBlanks(SubSeq(s, 1, Len(s) - 1))
  ELSE s
Fold(c) == IF c = "A" THEN "a" ELSE IF c = "B" THEN "b"
           ELSE IF c = "C" THEN "c" ELSE c
SubscriberOf(s) == LET t == StripBlanks(s) IN [i \in 1..Len(t) |-> Fold(t[i])]

\* a finished request of each kind
DoneSubscribe(rq) == rq.pc = "done" /\ IsSubscribe(rq)
DoneUnsubscribe(rq) == rq.pc = "done" /\ IsUnsubscribe(rq)
DoneList(rq) == rq.pc = "done" /\ IsList(rq)

\* the emails a ListSubscribers response carries
ListedEmails(rq) == {rq.subscribers[i].email : i \in 1..Len(rq.subscribers)}

\* keys of store s whose record carries token t
KeysWithToken(s, t) ==
  {k \in DOMAIN s : Parseable(s[k]) /\ JSON_parse(s[k]).token = t}

\* C1: a Subscribe(e) for a valid e that follows a completed Subscribe(e), no
\* Unsubscribe in between, answers 200 'Already subscribed', and the store
\* still holds exactly one record for e, the one the first call left there.
C1_SecondSubscribeIsNoOp ==
  \A p \in Procs :
    LET rq == req[p]
        k == SubscriberOf(rq.body.email)
    IN (/\ DoneSubscribe(rq)
        /\ rq.body.json /\ rq.body.hasEmail
        /\ LocalAtDomainTld(rq.body.email)
        /\ rq.sub0[k] # NoValue)
       => /\ rq.status = 200
          /\ rq.text = "Already subscribed"
          /\ {x \in DOMAIN store : SubscriberOf(x) = k} = {k}
          /\ store[k] = rq.sub0[k]
          /\ store = rq.pre

C1_Witness ==
  LET rq == req[1]
  IN /\ DoneSubscribe(rq)
     /\ rq.body.hasEmail
     /\ LocalAtDomainTld(rq.body.email)
     /\ rq.body.email # SubscriberOf(rq.body.email)
     /\ rq.sub0[SubscriberOf(rq.body.email)] # NoValue
     /\ rq.text = "Already subscribed"
     /\ Cardinality(DOMAIN store) = 2

\* C2: emails that differ from a valid address only in letter case or in
\* surrounding whitespace are accepted by Subscribe, map to the same key,
\* and are answered 'Already subscribed' once that subscriber exists.
C2_CaseAndWhitespaceCollide ==
  \A p \in Procs :
    LET rq == req[p]
        k == SubscriberOf(rq.body.email)
    IN (/\ DoneSubscribe(rq)
        /\ rq.body.json /\ rq.body.hasEmail
        /\ LocalAtDomainTld(k))
       => /\ rq.status = 200
          /\ k \in DOMAIN store
          /\ rq.sub0[k] # NoValue => rq.text = "Already subscribed"

\* C3: run one after the other, Subscribe(e) then Unsubscribe(token stored
\* for e) answers the 200 confirmation and removes exactly the record keyed
\* by normalized e, and a later authorized ListSubscribers omits e.
C3_SubscribeThenUnsubscribe ==
  \A p \in Procs :
    LET rq == req[p]
    IN /\ \A k \in Keys :
            (/\ DoneUnsubscribe(rq)
             /\ rq.sub0[k] # NoValue
             /\ JSON_parse(rq.sub0[k]).token = rq.token)
            => /\ rq.status = 200
               /\ rq.text = "You have been unsubscribed from job alerts."
               /\ k \in DOMAIN rq.pre
               /\ DOMAIN store = DOMAIN rq.pre \ {k}
               /\ \A x \in DOMAIN store : store[x] = rq.pre[x]
       /\ (DoneList(rq) /\ rq.status = 200)
            => ListedEmails(rq) \cap rq.unsub0 = {}

C3_Witness ==
  /\ DoneList(req[1])
  /\ req[1].status = 200
  /\ req[1].unsub0 # {}
  /\ req[1].subscribers # <<>>

C3_WitnessUnsubscribed ==
  /\ DoneUnsubscribe(req[1])
  /\ req[1].status = 200
  /\ \E k \in Keys : /\ req[1].sub0[k] # NoValue
                     /\ JSON_parse(req[1].sub0[k]).token = req[1].token
                     /\ KVlist(req[1].pre) = <<Str_a_b_c, k>>
                     /\ k # Str_a_b_c

\* C4: Unsubscribe with a non-empty token that no stored record carries
\* answers 404 and leaves the store exactly as it was.
C4_UnknownTokenNotFound ==
  \A p \in Procs :
    LET rq == req[p]
    IN (/\ DoneUnsubscribe(rq)
        /\ rq.token # Null /\ rq.token # ""
        /\ KeysWithToken(rq.pre, rq.token) = {})
       => /\ rq.status = 404
          /\ rq.text = "Subscription not found or already unsubscribed."
          /\ store = rq.pre

C4_Witness ==
  /\ DoneUnsubscribe(req[1])
  /\ req[1].status = 404
  /\ Cardinality(DOMAIN req[1].pre) = 2
  /\ KeysWithToken(req[1].pre, req[1].token) = {}

\* C5: Subscribe with a missing email, or with a string that does not match
\* local@domain.tld, answers 400 and writes nothing to the store.
C5_InvalidEmailRejected ==
  \A p \in Procs :
    LET rq == req[p]
    IN (/\ DoneSubscribe(rq)
        /\ rq.body.json
        /\ ~rq.body.hasEmail \/ ~LocalAtDomainTld(rq.body.email))
       => /\ rq.status = 400
          /\ rq.text = "Invalid email"
          /\ store = rq.pre

C5_Witness ==
  /\ DoneSubscribe(req[1])
  /\ req[1].body.hasEmail
  /\ Count(req[1].body.email, "@") = 0
  /\ req[1].body.email # <<>>
  /\ req[1].status = 400
  /\ store # EmptyStore

\* C6: ListSubscribers with a key that is not exactly the configured secret
\* (an absent key included) answers 401, its response carries no subscriber
\* data, and it performs no operation on the store.
C6_WrongKeyUnauthorized ==
  \A p \in Procs :
    LET rq == req[p]
    IN (DoneList(rq) /\ rq.key # API_SECRET)
       => /\ rq.status = 401
          /\ rq.text = "Unauthorized"
          /\ rq.subscribers = <<>>
          /\ rq.ops = 0

C6_Witness ==
  /\ DoneList(req[1])
  /\ req[1].key = Null
  /\ API_SECRET = Undefined
  /\ req[1].status = 401
  /\ store # EmptyStore

\* C7: after any sequence of completed Subscribe and Unsubscribe calls, an
\* authorized ListSubscribers returns exactly one entry per stored record,
\* whose email is the storage key and whose token is the one generated when
\* the record was created.
C7_ListRoundTrip ==
  \A p \in Procs :
    LET rq == req[p]
    IN (DoneList(rq) /\ rq.status = 200)
       => /\ Len(rq.subscribers) = Cardinality(DOMAIN store)
          /\ \A k \in DOMAIN store :
               \E i \in 1..Len(rq.subscribers) :
                 /\ rq.subscribers[i].email = k
                 /\ rq.subscribers[i].token = createdWith[k].token

C7_Witness ==
  /\ DoneList(req[1])
  /\ req[1].status = 200
  /\ Len(req[1].subscribers) = 2
  /\ req[1].subscribers[1].token = generateToken(3)
  /\ req[1].subscribers[2].token = generateToken(2)

\* C8: a stored value that is not parseable JSON is skipped by a scan: an
\* Unsubscribe whose token matches a well-formed record listed after the
\* malformed one still deletes it and answers the confirmation, and an
\* authorized ListSubscribers still answers; neither request fails.
C8_MalformedRecordSkipped ==
  \A p \in Procs :
    LET rq == req[p]
    IN /\ (/\ DoneUnsubscribe(rq)
           /\ \E k \in KeysWithToken(rq.pre, rq.token), m \in DOMAIN rq.pre :
                ~Parseable(rq.pre[m]) /\ KeyLess(m, k))
          => /\ ~rq.unhandled
             /\ rq.status = 200
             /\ KeysWithToken(store, rq.token) # KeysWithToken(rq.pre, rq.token)
       /\ (/\ DoneList(rq)
           /\ rq.key = API_SECRET
           /\ \E m \in DOMAIN rq.pre : ~Parseable(rq.pre[m]))
          => /\ ~rq.unhandled
             /\ rq.status = 200

\* C9: every response, for every route and outcome, carries the permissive
\* cross-origin headers.
C9_EveryResponseHasCors ==
  \A p \in Procs :
    (req[p].pc = "done" /\ ~req[p].unhandled) => req[p].cors

\* C10: in each of Subscribe, Unsubscribe and ListSubscribers, a failing
\* store operation ends the request with the generic 500 response, not with
\* an unhandled failure.
C10_StoreFailureIsServerError ==
  \A p \in Procs :
    (req[p].pc = "done" /\ req[p].failed)
      => /\ ~req[p].unhandled
         /\ req[p].status = 500
         /\ req[p].text = "Server error"

\* C11: a non-OPTIONS request whose (method, path) is not POST /subscribe,
\* GET /unsubscribe or GET /subscribers answers 404 'Not Found' and neither
\* reads nor modifies the store; OPTIONS on any path answers an empty 200
\* without touching the store.
RoutedPairs ==
  {<<"POST", "/subscribe">>, <<"GET", "/unsubscribe">>,
   <<"GET", "/subscribers">>}

C11_UnroutedAndPreflight ==
  \A p \in Procs :
    LET rq == req[p]
    IN /\ (/\ rq.pc = "done"
           /\ rq.method # "OPTIONS"
           /\ <<rq.method, rq.path>> \notin RoutedPairs)
          => /\ rq.status = 404
             /\ rq.text = "Not Found"
             /\ rq.ops = 0
             /\ store = rq.pre
       /\ (rq.pc # "idle" /\ rq.method = "OPTIONS")
          => /\ rq.pc = "done"
             /\ rq.status = 200
             /\ rq.text = ""
             /\ rq.ops = 0
             /\ store = rq.pre

C11_Witness ==
  /\ req[1].pc = "done"
  /\ req[1].method = "POST"
  /\ req[1].path = "/unsubscribe"
  /\ req[1].token = "t1"
  /\ req[1].status = 404
  /\ KeysWithToken(store, "t1") # {}

\* C12: in every reachable state, under every interleaving of overlapping
\* requests, every key of the store is a normalized email (lowercase, no
\* surrounding whitespace) and no two keys denote the same address.
C12_KeysNormalizedAndUnique ==
  \A k \in DOMAIN store :
    /\ SubscriberOf(k) = k
    /\ \A k2 \in DOMAIN store : SubscriberOf(k2) = SubscriberOf(k) => k2 = k

C12_Witness ==
  /\ DOMAIN store = {Str_a_b_c}
  /\ req[1].pc = "done"
  /\ req[1].body.email = Str_A_B_c
  /\ req[1].text = "Subscribed successfully"
  /\ req[2].pc = "s_put"
  /\ req[2].body.email = Str_a_b_c

\* C13 (as stated): in every execution, overlapping Subscribe calls for the
\* same email included, once a record exists under a key its token and
\* subscribed_at never change while the key stays present.
C13_RecordsImmutable ==
  [][\A k \in DOMAIN store \cap DOMAIN store' : store'[k] = store[k]]_vars

\* C13 (amended): the value under a present key changes only by the put of a
\* Subscribe call for that address whose own get had returned null, that is,
\* a Subscribe that overlapped the one that created the record.
C13_OnlyOverlappingSubscribeRewrites ==
  [][\A k \in DOMAIN store \cap DOMAIN store' :
       store'[k] # store[k] =>
         \E p \in Procs :
           /\ IsSubscribe(req[p])
           /\ req[p].pc = "s_put" /\ req'[p].pc = "done"
           /\ SubscriberOf(req[p].body.email) = k
           /\ req[p].existing = NullValue
           /\ store'[k] = JSON_stringify(req[p].data)]_vars

C13_Witness ==
  /\ req[1].pc = "done" /\ req[2].pc = "done"
  /\ req[1].text = "Subscribed successfully"
  /\ req[2].text = "Subscribed successfully"
  /\ req[1].normalizedEmail = req[2].normalizedEmail
  /\ req[1].unsub0 = {} /\ req[2].unsub0 = {}
  /\ nextToken = 3
  /\ req[1].data.token = generateToken(1)
  /\ KeysWithToken(store, generateToken(2)) = {req[1].normalizedEmail}

\* C14: Unsubscribe(t) destroys a record only when that record's token is t:
\* in every execution, also when another Unsubscribe and a re-Subscribe of
\* the same email run between this call's get and its delete, the record
\* removed by the delete step carries token t at the moment it is removed.
C14_DeleteRemovesMatchingToken ==
  [][\A p \in Procs :
       LET k == req[p].list[req[p].idx]
       IN (/\ req[p].pc = "u_delete" /\ req'[p].pc = "done"
           /\ k \in DOMAIN store /\ k \notin DOMAIN store')
          => JSON_parse(store[k]).token = req[p].token]_vars

\* the interleaving C14 names: slot 1 unsubscribes t1 and has read the record;
\* slot 2 unsubscribes t1 too, then subscribes the email again (token t2);
\* slot 1's delete then removes the t2 record
C14_Scenario ==
  /\ DoneUnsubscribe(req[1]) /\ req[1].status = 200
  /\ req[1].token = generateToken(1)
  /\ DoneSubscribe(req[2]) /\ req[2].text = "Subscribed successfully"
  /\ req[2].data.token = generateToken(2)
  /\ req[2].unsub0 = {req[2].normalizedEmail}
  /\ store = EmptyStore

\* C15: one Unsubscribe call deletes at most one record: it deletes the first
\* key, in listing order, whose record carries the token and stops scanning,
\* so the store shrinks by at most one even when several records carry the
\* same token.
C15_AtMostOneDeletion ==
  \A p \in Procs :
    LET rq == req[p]
        M == KeysWithToken(rq.pre, rq.token)
    IN DoneUnsubscribe(rq) =>
         /\ DOMAIN store \subseteq DOMAIN rq.pre
         /\ Cardinality(DOMAIN rq.pre \ DOMAIN store) <= 1
         /\ rq.status = 200 =>
              \E k \in M :
                /\ \A m \in M \ {k} : KeyLess(k, m)
                /\ store = [x \in DOMAIN rq.pre \ {k} |-> rq.pre[x]]
                /\ rq.ops = Cardinality({x \in DOMAIN rq.pre : KeyLess(x, k)}) + 3

C15_Witness ==
  /\ DoneUnsubscribe(req[1])
  /\ req[1].status = 200
  /\ Cardinality(KeysWithToken(req[1].pre, req[1].token)) = 2
  /\ Cardinality(DOMAIN store) = 1

\* C16: Unsubscribe with an absent or empty token answers 400 before any
\* store operation: nothing is listed, read or deleted, the store is
\* unchanged.
C16_MissingTokenRejected ==
  \A p \in Procs :
    LET rq == req[p]
    IN (/\ rq.method = "GET" /\ rq.path = "/unsubscribe"
        /\ rq.pc # "idle"
        /\ rq.token \in {Null, ""})
       => /\ rq.pc = "done"
          /\ rq.status = 400
          /\ rq.text = "Invalid unsubscribe link."
          /\ rq.ops = 0
          /\ rq.list = <<>>
          /\ store = rq.pre

C16_Witness ==
  /\ DoneUnsubscribe(req[1])
  /\ req[1].token = ""
  /\ req[1].status = 400
  /\ Cardinality(DOMAIN store) = 2

\* C17: a scan that overlaps writers takes the key listing once and then
\* fetches each key on its own: a key deleted after the listing is skipped
\* and the scan completes normally, and every entry ListSubscribers returns
\* is a key of the listing with a value that was stored under it when the
\* scan fetched it.
ScanPcs == {"u_get", "u_delete", "l_get"}
Elements(seq) == {seq[i] : i \in 1..Len(seq)}

C17_ScanStep(p) ==
  LET rq == req[p]
      nx == req'[p]
      k == rq.list[rq.idx]
  IN /\ (rq.pc \in {"u_list", "l_list"} /\ nx # rq) => nx.list = KVlist(store)
     /\ rq.pc \in ScanPcs => nx.list = rq.list
     /\ (rq.pc \in {"u_get", "l_get"} /\ nx # rq /\ k \notin DOMAIN store)
          => /\ ~nx.unhandled
             /\ nx.subscribers = rq.subscribers
             /\ IF rq.idx < Len(rq.list)
                THEN nx.pc = rq.pc /\ nx.idx = rq.idx + 1
                ELSE /\ nx.pc = "done"
                     /\ nx.status = IF rq.pc = "l_get" THEN 200 ELSE 404
     /\ (rq.pc = "l_get" /\ nx.subscribers # rq.subscribers)
          => /\ k \in DOMAIN store
             /\ nx.subscribers =
                  Append(rq.subscribers,
                         [email |-> k, token |-> store[k][2],
                          subscribed_at |-> store[k][3]])
     /\ ~nx.unhandled
     /\ DoneList(nx) => ListedEmails(nx) \subseteq Elements(nx.list)

C17_ScanWithoutIsolation == [][\A p \in Procs : C17_ScanStep(p)]_vars

C17_Witness ==
  /\ DoneList(req[1]) /\ req[1].status = 200
  /\ Len(req[1].list) = 1
  /\ req[1].subscribers = <<>>
  /\ DoneUnsubscribe(req[2]) /\ req[2].status = 200
  /\ req[2].pre # EmptyStore

\* C18: of two Unsubscribe calls with the same token, run one after the
\* other with no Subscribe in between, if the first answers the 200
\* confirmation the second answers 404 and leaves the store unchanged.
C18_TokenRemovesOnce ==
  \A p \in Procs :
    LET rq == req[p]
    IN (DoneUnsubscribe(rq) /\ rq.repeated)
       => /\ rq.status = 404
          /\ rq.text = "Subscription not found or already unsubscribed."
          /\ store = rq.pre

C18_Witness ==
  /\ DoneUnsubscribe(req[1])
  /\ req[1].repeated
  /\ req[1].status = 404
  /\ store # EmptyStore

\* C19: ListSubscribers never modifies the store: for every key argument,
\* authorized or not, and every store state, the store during and after the
\* call is the store before it.
C19_ListLeavesStore ==
  \A p \in Procs :
    (req[p].method = "GET" /\ req[p].path = "/subscribers")
      => store = req[p].pre

C19_Witness ==
  /\ DoneList(req[1])
  /\ req[1].status = 200
  /\ req[1].ops = 3
  /\ Cardinality(DOMAIN store) = 2

\* C20: Subscribe answers the newly-subscribed and the already-subscribed
\* outcome with 200 both, told apart by the message only: the message is
\* 'Subscribed successfully' exactly when the call wrote a record and
\* 'Already subscribed' exactly when it wrote nothing.
C20_MessageTellsWrite ==
  \A p \in Procs :
    LET rq == req[p]
        k == SubscriberOf(rq.body.email)
        wrote == /\ k \notin DOMAIN rq.pre
                 /\ DOMAIN store = DOMAIN rq.pre \cup {k}
                 /\ \A x \in DOMAIN rq.pre : store[x] = rq.pre[x]
    IN DoneSubscribe(rq) =>
         /\ rq.status = 200
              <=> rq.text \in {"Subscribed successfully", "Already subscribed"}
         /\ rq.text = "Subscribed successfully" <=> wrote
         /\ wrote \/ store = rq.pre
         /\ rq.status = 200 =>
              (rq.text = "Already subscribed" <=> store = rq.pre)

C20_Witness ==
  /\ DoneSubscribe(req[1])
  /\ req[1].status = 200
  /\ req[1].text = "Subscribed successfully"
  /\ Cardinality(DOMAIN req[1].pre) = 1
  /\ Cardinality(DOMAIN store) = 2

====
